---- MODULE Spec2Model ----
(***************************************************************************)
(* Model of the submission path of the interLink SLURM plugin              *)
(* (src/pkg/slurm/Create.go): createRuntime, the per-container loop of     *)
(* SubmitHandler (resource-limit aggregation and command assembly) and     *)
(* the staging of script generation, job submit and job-id recording.      *)
(*                                                                         *)
(* Go strings whose characters matter (mount fragments, command tokens,    *)
(* names, pod UIDs) are sequences of one-character strings.  CPU limits    *)
(* are kept in milli-CPU, the unit of a Kubernetes quantity; memory is in  *)
(* bytes.  int and int64 are both 64 bits wide on the build targets and    *)
(* no value of the model comes near that width.                            *)
(***************************************************************************)
EXTENDS Integers, Sequences, FiniteSets, TLC

VARIABLES
    config,     \* h.Config: ContainerRuntime, DataRootFolder
    h,          \* one SubmitHandler execution per pod UID: its locals
    JIDs,       \* h.JIDs, the job-tracking store: set of <<pod uid, job id>>
    dirs,       \* working directories that exist on disk
    nextJob,    \* the scheduler's next job number
    asm,        \* command assembly of one container, on character strings
    mem         \* one call of parseMem: its argument and its results

vars == <<config, h, JIDs, dirs, nextJob, asm, mem>>

----------------------------------------------------------------------------
(* Bounds of the model *)

MaxContainers == 3
MaxFragLen == 6
MaxTokenLen == 4
MaxLiveContainers == 2
MaxConcContainers == 2

----------------------------------------------------------------------------
(* Strings *)

RoMarker == <<":", "r", "o">>

\* strings.Contains(s, sub)
Contains(s, sub) ==
    \E k \in 0..(Len(s) - Len(sub)) : SubSeq(s, k + 1, k + Len(sub)) = sub

\* strings.ReplaceAll(s, old, new) for a non-empty old: one left-to-right
\* pass over the non-overlapping occurrences of old
RECURSIVE ReplaceAll(_, _, _)
ReplaceAll(s, old, new) ==
    IF Len(s) < Len(old) THEN s
    ELSE IF SubSeq(s, 1, Len(old)) = old
         THEN new \o ReplaceAll(SubSeq(s, Len(old) + 1, Len(s)), old, new)
         ELSE <<Head(s)>> \o ReplaceAll(Tail(s), old, new)

\* all strings over alphabet A of length at most n
StringsUpTo(A, n) == UNION {[1..k -> A] : k \in 0..n}

----------------------------------------------------------------------------
(* createRuntime *)

SupportedRuntimes == {"singularity", "enroot"}
RuntimeNames == {"singularity", "enroot", "docker", "Enroot", ""}

createRuntimeAlwaysSingularity(containerRuntime) ==
    CASE containerRuntime = "singularity" -> [runtime |-> "SingularityRuntime", err |-> FALSE]
      [] containerRuntime = "enroot" -> [runtime |-> "EnrootRuntime", err |-> FALSE]
      [] OTHER -> [runtime |-> "SingularityRuntime", err |-> FALSE]

createRuntime(containerRuntime) ==
    CASE containerRuntime = "singularity" -> [runtime |-> "SingularityRuntime", err |-> FALSE]
      [] containerRuntime = "enroot" -> [runtime |-> "EnrootRuntime", err |-> FALSE]
      [] OTHER -> [runtime |-> "nil", err |-> TRUE]

----------------------------------------------------------------------------
(* parseMem: a memory quantity written as digits and an optional unit.     *)
(* An int64 is kept as its digits in base 1024, least significant first    *)
(* and without leading zero digits, so that 0 is <<>>; the products of     *)
(* parseMem are then computed at the width of int64.                       *)

Digits == {"0", "1", "2", "3", "4", "5", "6", "7", "8", "9"}

DigitValue(c) ==
    CASE c = "0" -> 0 [] c = "1" -> 1 [] c = "2" -> 2 [] c = "3" -> 3 [] c = "4" -> 4
      [] c = "5" -> 5 [] c = "6" -> 6 [] c = "7" -> 7 [] c = "8" -> 8 [] c = "9" -> 9

\* re.FindStringSubmatch(val) for ^(\d+)([KMG]?)$ : the whole match and the
\* two groups, or the empty list when val does not match
FindStringSubmatch(val) ==
    LET n == Len(val)
        hasUnit == n > 0 /\ val[n] \in {"K", "M", "G"}
        digits == IF hasUnit THEN SubSeq(val, 1, n - 1) ELSE val
        unit == IF hasUnit THEN <<val[n]>> ELSE <<>>
    IN  IF digits # <<>> /\ \A i \in 1..Len(digits) : digits[i] \in Digits
        THEN <<val, digits, unit>>
        ELSE <<>>

LimbBase == 1024
Int64Limbs == 7
TopLimbBase == 16
SignLimb == 8

RECURSIVE StripZeros(_)
StripZeros(x) ==
    IF x # <<>> /\ x[Len(x)] = 0 THEN StripZeros(SubSeq(x, 1, Len(x) - 1)) ELSE x

\* x * m + carry, for a carry below the base
RECURSIVE MulAdd(_, _, _)
MulAdd(x, m, carry) ==
    IF x = <<>>
    THEN IF carry = 0 THEN <<>> ELSE <<carry>>
    ELSE LET v == Head(x) * m + carry
         IN  <<v % LimbBase>> \o MulAdd(Tail(x), m, v \div LimbBase)

\* 1<<63 - 1
MaxInt64 == <<1023, 1023, 1023, 1023, 1023, 1023, 7>>

\* strconv.ParseInt(s, 10, 64) of a string of digits: the value, or the
\* largest int64 and a range error when the value does not fit
ParseInt(s) ==
    LET F[i \in 0..Len(s)] ==
            IF i = 0 THEN <<>> ELSE MulAdd(F[i - 1], 10, DigitValue(s[i]))
        v == F[Len(s)]
        outOfRange == \/ Len(v) > Int64Limbs
                      \/ Len(v) = Int64Limbs /\ v[Int64Limbs] >= SignLimb
    IN  [n |-> IF outOfRange THEN MaxInt64 ELSE v, err |-> outOfRange]

\* a product keeps its low 64 bits: six digits of ten bits and four bits
\* more; a value with the bit of SignLimb set is a negative int64
Wrap64(x) ==
    StripZeros([i \in 1..(IF Len(x) < Int64Limbs THEN Len(x) ELSE Int64Limbs) |->
                    IF i = Int64Limbs THEN x[i] % TopLimbBase ELSE x[i]])

\* x * 1024
Mul1024(x) == IF x = <<>> THEN <<>> ELSE Wrap64(<<0>> \o x)

parseMemMegaAsKilo(val) ==
    LET m == FindStringSubmatch(val)
    IN  IF Len(m) # 3
        THEN [value |-> <<>>, err |-> TRUE]
        ELSE LET parsed == ParseInt(m[2])
                 n == parsed.n
             IN  CASE parsed.err -> [value |-> <<>>, err |-> TRUE]
                   [] m[3] = <<"G">> -> [value |-> Mul1024(Mul1024(Mul1024(n))), err |-> FALSE]
                   [] m[3] = <<"M">> -> [value |-> Mul1024(n), err |-> FALSE]
                   [] m[3] = <<"K">> -> [value |-> Mul1024(n), err |-> FALSE]
                   [] OTHER -> [value |-> n, err |-> FALSE]

parseMem(val) ==
    LET m == FindStringSubmatch(val)
    IN  IF Len(m) # 3
        THEN [value |-> <<>>, err |-> TRUE]
        ELSE LET parsed == ParseInt(m[2])
                 n == parsed.n
             IN  CASE parsed.err -> [value |-> <<>>, err |-> TRUE]
                   [] m[3] = <<"G">> -> [value |-> Mul1024(Mul1024(Mul1024(n))), err |-> FALSE]
                   [] m[3] = <<"M">> -> [value |-> Mul1024(Mul1024(n)), err |-> FALSE]
                   [] m[3] = <<"K">> -> [value |-> Mul1024(n), err |-> FALSE]
                   [] OTHER -> [value |-> n, err |-> FALSE]

NoMem == [pc |-> "none", val |-> <<>>, value |-> <<>>, err |-> FALSE]

----------------------------------------------------------------------------
(* Resource-limit aggregation: the first half of the loop body of          *)
(* SubmitHandler.  a is the record of the locals the loop updates.         *)

\* resourceLimits.Memory = 1024 * 1024
DefaultMemory == 1024 * 1024

MiB == 1024 * 1024

\* the locals before the loop: resourceLimits is the zero value
InitAgg ==
    [CPU |-> 0, Memory |-> 0,
     isDefaultCPU |-> TRUE, isDefaultRam |-> TRUE,
     maxCPULimit |-> 0, maxMemoryLimit |-> 0,
     cpuLimit |-> 0, memoryLimit |-> 0,
     warnCPU |-> <<>>, warnMem |-> <<>>]

CeilCPUTruncating(cpuMilli) == cpuMilli \div 1000

\* int64(math.Ceil(container.Resources.Limits.Cpu().AsApproximateFloat64()))
\* for a non-negative quantity given in milli-CPU
CeilCPU(cpuMilli) == (cpuMilli + 999) \div 1000

UpdateCPULastWins(a, container) ==
    LET cpuLimitFromContainer == CeilCPU(container.cpuMilli) IN
    IF cpuLimitFromContainer = 0 /\ a.isDefaultCPU
    THEN [a EXCEPT !.CPU = 1, !.warnCPU = Append(@, container.name)]
    ELSE IF cpuLimitFromContainer > 0
         THEN [a EXCEPT !.cpuLimit = cpuLimitFromContainer,
                        !.maxCPULimit = cpuLimitFromContainer,
                        !.isDefaultCPU = FALSE]
         ELSE a

\* a CPU branch that warns for every container without a CPU limit
UpdateCPUWarnAlways(a, container) ==
    LET cpuLimitFromContainer == CeilCPU(container.cpuMilli) IN
    IF cpuLimitFromContainer = 0 /\ a.isDefaultCPU
    THEN [a EXCEPT !.CPU = 1, !.warnCPU = Append(@, container.name)]
    ELSE IF cpuLimitFromContainer > a.CPU /\ a.maxCPULimit < cpuLimitFromContainer
         THEN [a EXCEPT !.cpuLimit = cpuLimitFromContainer,
                        !.maxCPULimit = cpuLimitFromContainer,
                        !.isDefaultCPU = FALSE]
         ELSE IF cpuLimitFromContainer = 0
              THEN [a EXCEPT !.warnCPU = Append(@, container.name)]
              ELSE a

\* the CPU branch of the loop body
UpdateCPU(a, container) ==
    LET cpuLimitFromContainer == CeilCPU(container.cpuMilli) IN
    IF cpuLimitFromContainer = 0 /\ a.isDefaultCPU
    THEN [a EXCEPT !.CPU = 1, !.warnCPU = Append(@, container.name)]
    ELSE IF cpuLimitFromContainer > a.CPU /\ a.maxCPULimit < cpuLimitFromContainer
         THEN [a EXCEPT !.cpuLimit = cpuLimitFromContainer,
                        !.maxCPULimit = cpuLimitFromContainer,
                        !.isDefaultCPU = FALSE]
         ELSE a

\* the memory branch of the loop body
UpdateMemory(a, container) ==
    LET memoryLimitFromContainer == container.memory IN
    IF memoryLimitFromContainer = 0 /\ a.isDefaultRam
    THEN [a EXCEPT !.Memory = DefaultMemory, !.warnMem = Append(@, container.name)]
    ELSE IF memoryLimitFromContainer > a.Memory /\ a.maxMemoryLimit < memoryLimitFromContainer
         THEN [a EXCEPT !.memoryLimit = memoryLimitFromContainer,
                        !.maxMemoryLimit = memoryLimitFromContainer,
                        !.isDefaultRam = FALSE]
         ELSE a

\* a loop body without the two assignments that end the aggregation
AggregateContainerKeepFloor(a, container) ==
    UpdateMemory(UpdateCPU(a, container), container)

\* both branches, then resourceLimits.CPU = cpuLimit and
\* resourceLimits.Memory = memoryLimit
AggregateContainer(a, container) ==
    LET b == UpdateMemory(UpdateCPU(a, container), container) IN
    [b EXCEPT !.CPU = b.cpuLimit, !.Memory = b.memoryLimit]

\* the aggregation of a whole container list, in list order
RECURSIVE AggregateFrom(_, _)
AggregateFrom(a, cs) ==
    IF cs = <<>> THEN a
    ELSE AggregateFrom(AggregateContainer(a, Head(cs)), Tail(cs))

\* what the loop hands on: the limits and the two default-used flags
Handed(a) ==
    [CPU |-> a.CPU, Memory |-> a.Memory,
     isDefaultCPU |-> a.isDefaultCPU, isDefaultRam |-> a.isDefaultRam]

----------------------------------------------------------------------------
(* Command assembly: the second half of the loop body *)

\* the switch on h.Config.ContainerRuntime without the ReplaceAll of ":ro"
AssembleCommandKeepRo(containerRuntime, commstr1, envs, mounts, image, name, uid) ==
    LET runtime_command == commstr1 \o envs IN
    CASE containerRuntime = "singularity" -> runtime_command \o <<mounts, image>>
      [] containerRuntime = "enroot" -> runtime_command \o <<mounts, name \o uid>>
      [] OTHER -> runtime_command

\* an assembly that puts the trailer before the mount fragment
AssembleCommandTrailerFirst(containerRuntime, commstr1, envs, mounts, image, name, uid) ==
    LET runtime_command == commstr1 \o envs IN
    CASE containerRuntime = "singularity" -> runtime_command \o <<image, mounts>>
      [] containerRuntime = "enroot" ->
            runtime_command \o <<name \o uid, ReplaceAll(mounts, RoMarker, <<>>)>>
      [] OTHER -> runtime_command

\* runtime_command := append(commstr1, envs...) and the switch on
\* h.Config.ContainerRuntime
AssembleCommand(containerRuntime, commstr1, envs, mounts, image, name, uid) ==
    LET runtime_command == commstr1 \o envs IN
    CASE containerRuntime = "singularity" -> runtime_command \o <<mounts, image>>
      [] containerRuntime = "enroot" ->
            runtime_command \o <<ReplaceAll(mounts, RoMarker, <<>>), name \o uid>>
      [] OTHER -> runtime_command

----------------------------------------------------------------------------
(* The requests SubmitHandler receives *)

PodUIDs == {<<"u", "1">>, <<"u", "2">>}
Namespaces == {<<"n", "s">>}

\* container limits of the pods submitted: CPU in milli-CPU (0 is
\* undeclared, 400 = 0.4, 1200 = 1.2), memory in bytes (0 is undeclared)
\* the limits of one container: every CPU value and every memory value
\* occurs, so every sequence of CPU limits and every sequence of memory
\* limits is submitted (the two are aggregated independently)
ContainerLimits ==
    {[cpuMilli |-> 0, memory |-> 0],
     [cpuMilli |-> 400, memory |-> 0],
     [cpuMilli |-> 0, memory |-> 2 * MiB],
     [cpuMilli |-> 1200, memory |-> MiB],
     [cpuMilli |-> 400, memory |-> 2 * MiB]}

DigitChar(k) == <<"0", "1", "2", "3", "4", "5", "6", "7", "8", "9">>[k + 1]

\* the k-th container of a pod: names are unique within the pod
MkContainer(k, lim) ==
    [name |-> <<"c", DigitChar(k)>>, cpuMilli |-> lim.cpuMilli,
     memory |-> lim.memory, image |-> <<"i", DigitChar(k)>>]

MkPod(uid, ns, lims, numInit) ==
    LET all == [k \in 1..Len(lims) |-> MkContainer(k, lims[k])] IN
    [UID |-> uid, Namespace |-> ns,
     InitContainers |-> SubSeq(all, 1, numInit),
     Containers |-> SubSeq(all, numInit + 1, Len(all))]

NoPod == [UID |-> <<>>, Namespace |-> <<>>, InitContainers |-> <<>>, Containers |-> <<>>]

\* a request: its body may fail to be read, or may not decode
Requests(uid) ==
    {[readable |-> FALSE, wellFormed |-> FALSE, pod |-> NoPod],
     [readable |-> TRUE, wellFormed |-> FALSE, pod |-> NoPod]}
    \cup UNION {{[readable |-> TRUE, wellFormed |-> TRUE,
                  pod |-> MkPod(uid, ns, lims, numInit)] :
                    ns \in Namespaces, lims \in [1..n -> ContainerLimits], numInit \in 0..n} :
                n \in 0..MaxContainers}

----------------------------------------------------------------------------
(* The locals of one SubmitHandler execution *)

StatusOK == 200
StatusInternalServerError == 500
StatusGatewayTimeout == 504

NoResponse == [written |-> FALSE, status |-> 0, kind |-> "none", PodUID |-> <<>>, PodJID |-> 0]
NoScriptArgs == [called |-> FALSE, podUID |-> <<>>, filesPath |-> <<>>, commands |-> <<>>,
                 limits |-> Handed(InitAgg)]

IdleHandler ==
    [pc |-> "idle", request |-> [readable |-> FALSE, wellFormed |-> FALSE, pod |-> NoPod],
     data |-> NoPod, containerRuntime |-> "nil", containers |-> <<>>, filesPath |-> <<>>,
     i |-> 0, agg |-> InitAgg, runtime_command_pod |-> <<>>,
     scriptArgs |-> NoScriptArgs, out |-> 0, jid |-> 0,
     resp |-> NoResponse, calls |-> <<>>, failed |-> "none"]

\* a collaborator call, in the order the handler makes them
Call(s, op, arg, ok) == [s EXCEPT !.calls = Append(@, [op |-> op, arg |-> arg, ok |-> ok])]

\* h.handleError(spanCtx, w, status, err): the error response
handleError(s, status) ==
    [s EXCEPT !.resp = [written |-> TRUE, status |-> status, kind |-> "error",
                        PodUID |-> <<>>, PodJID |-> 0]]

\* the handler and the shared state it steps on
World(p) == [hs |-> h[p], dirs |-> dirs, JIDs |-> JIDs, nextJob |-> nextJob]

Commit(p, w) ==
    /\ h' = [h EXCEPT ![p] = w.hs]
    /\ dirs' = w.dirs
    /\ JIDs' = w.JIDs
    /\ nextJob' = w.nextJob
    /\ UNCHANGED <<config, asm, mem>>

\* os.RemoveAll(filesPath)
RemoveAll(w, path) ==
    [w EXCEPT !.dirs = @ \ {path}, !.hs = Call(@, "RemoveAll", path, TRUE)]

\* return
Done(w, stage) == [w EXCEPT !.hs.pc = "done", !.hs.failed = stage]

----------------------------------------------------------------------------
(* The collaborators of SubmitHandler whose code is outside Create.go.     *)
(* Their results are fixed per container here; the command assembly is     *)
(* exercised on arbitrary fragments by SpecAssemble below.                 *)

\* prepareMounts: the mount fragment of a container, with a read-only bind
prepareMounts(container) == <<"b", Head(Tail(container.name)), ":", "r", "o">>

\* prepareEnvs: the environment tokens of a container
prepareEnvs(container) == << <<"e", Head(Tail(container.name))>> >>

\* prepareImage: the resolved image
prepareImage(image) == <<"/">> \o image

\* containerRuntime.prepareCommand: the runtime's prefix tokens
prepareCommand(runtime, container) ==
    IF runtime = "SingularityRuntime" THEN << <<"s">>, <<"x">> >> ELSE << <<"n">> >>

\* deleteContainer: cancels the pod's job, forgets its entry of the
\* job-tracking store and purges the working directory. The cleanup is
\* best-effort: it may return an error (~ok), and a failing call may or
\* may not have forgotten the entry before it failed (forgot)
deleteContainer(w, podUID, path, ok, forgot) ==
    [w EXCEPT !.JIDs = IF ok \/ forgot THEN {e \in @ : e[1] # podUID} ELSE @,
              !.dirs = IF ok THEN @ \ {path} ELSE @,
              !.hs = Call(@, "deleteContainer", podUID, ok)]

----------------------------------------------------------------------------
(* The steps of SubmitHandler, each a function of the world it runs in *)

\* bodyBytes, err := io.ReadAll(r.Body)
ReadBodyStep(w) ==
    IF ~w.hs.request.readable
    THEN Done([w EXCEPT !.hs = handleError(@, StatusInternalServerError)], "body")
    ELSE [w EXCEPT !.hs.pc = "CreateRuntime"]

\* containerRuntime, err := createRuntime(h.Config.ContainerRuntime)
CreateRuntimeStep(w) ==
    LET r == createRuntime(config.ContainerRuntime) IN
    IF r.err
    THEN Done([w EXCEPT !.hs = handleError(@, StatusInternalServerError)], "runtime")
    ELSE [w EXCEPT !.hs.containerRuntime = r.runtime, !.hs.pc = "Unmarshal"]

\* a working directory that is not derived from the pod UID
UnmarshalStepSharedPath(w) ==
    IF ~w.hs.request.wellFormed
    THEN Done([w EXCEPT !.hs = handleError(@, StatusGatewayTimeout)], "decode")
    ELSE LET data == w.hs.request.pod IN
         [w EXCEPT !.hs.data = data,
                   !.hs.containers = data.InitContainers \o data.Containers,
                   !.hs.filesPath = config.DataRootFolder \o data.Namespace \o <<"-">>,
                   !.hs.runtime_command_pod = <<>>,
                   !.hs.agg = InitAgg,
                   !.hs.i = 0,
                   !.hs.pc = "Loop"]

\* err = json.Unmarshal(bodyBytes, &data), then the locals of the loop
UnmarshalStep(w) ==
    IF ~w.hs.request.wellFormed
    THEN Done([w EXCEPT !.hs = handleError(@, StatusGatewayTimeout)], "decode")
    ELSE LET data == w.hs.request.pod IN
         [w EXCEPT !.hs.data = data,
                   !.hs.containers = data.InitContainers \o data.Containers,
                   !.hs.filesPath = config.DataRootFolder \o data.Namespace \o <<"-">> \o data.UID,
                   !.hs.runtime_command_pod = <<>>,
                   !.hs.agg = InitAgg,
                   !.hs.i = 0,
                   !.hs.pc = "Loop"]

\* an entry whose init flag also covers the first regular container
ContainerCommandOfInitOffByOne(s, i, container, mounts) ==
    LET envs == prepareEnvs(container)
        image == prepareImage(container.image)
        commstr1 == prepareCommand(s.containerRuntime, container)
        runtime_command == AssembleCommand(config.ContainerRuntime, commstr1, envs, mounts,
                                           image, container.name, s.data.UID)
        isInit == i <= Len(s.data.InitContainers)
    IN [runtimeCommand |-> runtime_command, containerName |-> container.name,
        isInitContainer |-> isInit, containerImage |-> image]

\* the entry the loop body appends to runtime_command_pod for container
\* number i (from 0) once prepareMounts has succeeded
ContainerCommandOf(s, i, container, mounts) ==
    LET envs == prepareEnvs(container)
        image == prepareImage(container.image)
        commstr1 == prepareCommand(s.containerRuntime, container)
        runtime_command == AssembleCommand(config.ContainerRuntime, commstr1, envs, mounts,
                                           image, container.name, s.data.UID)
        isInit == i < Len(s.data.InitContainers)
    IN [runtimeCommand |-> runtime_command, containerName |-> container.name,
        isInitContainer |-> isInit, containerImage |-> image]

\* h.handleError(spanCtx, w, http.StatusGatewayTimeout, err) of the
\* prepareMounts error branch
MountsErrorStep(w) ==
    [w EXCEPT !.hs = [handleError(@, StatusGatewayTimeout) EXCEPT !.pc = "MountsRemoveAll"]]

\* os.RemoveAll(filesPath) of the prepareMounts error branch; return
MountsRemoveAllStep(w) == Done(RemoveAll(w, w.hs.filesPath), "mounts")

\* a script-generation error branch that leaves the working directory
ScriptRemoveAllStepKeepDir(w) == Done(w, "script")

\* os.RemoveAll(filesPath) of the produceSLURMScript error branch; return
ScriptRemoveAllStep(w) == Done(RemoveAll(w, w.hs.filesPath), "script")

\* h.handleError(spanCtx, w, http.StatusGatewayTimeout, err) of the
\* SLURMBatchSubmit error branch
SubmitErrorStep(w) ==
    [w EXCEPT !.hs = [handleError(@, StatusGatewayTimeout) EXCEPT !.pc = "SubmitRemoveAll"]]

\* os.RemoveAll(filesPath) of the SLURMBatchSubmit error branch; return
SubmitRemoveAllStep(w) == Done(RemoveAll(w, w.hs.filesPath), "submit")

\* an iteration whose prepareMounts error is ignored
LoopIterationNoAbort(w, mountsOk, created) ==
    LET s == w.hs
        container == s.containers[s.i + 1]
        s1 == Call([s EXCEPT !.agg = AggregateContainer(@, container)],
                   "prepareMounts", s.i, mountsOk)
        d1 == IF mountsOk \/ created THEN w.dirs \cup {s.filesPath} ELSE w.dirs
        cc == ContainerCommandOf(s, s.i, container, prepareMounts(container))
        s2 == Call(Call(Call(s1, "prepareEnvs", s.i, TRUE), "prepareImage", s.i, TRUE),
                   "prepareCommand", s.i, TRUE)
    IN [w EXCEPT !.dirs = d1,
                 !.hs = [s2 EXCEPT !.runtime_command_pod = Append(@, cc), !.i = @ + 1]]

\* a loop that starts over at the first container after the last one
LoopIterationStartsOver(w, mountsOk, created) ==
    LET s == w.hs
        container == s.containers[s.i + 1]
        s1 == Call([s EXCEPT !.agg = AggregateContainer(@, container)],
                   "prepareMounts", s.i, mountsOk)
        d1 == IF mountsOk \/ created THEN w.dirs \cup {s.filesPath} ELSE w.dirs
    IN IF ~mountsOk
       THEN [w EXCEPT !.dirs = d1, !.hs = [s1 EXCEPT !.pc = "MountsError"]]
       ELSE [w EXCEPT !.dirs = d1,
                      !.hs.i = IF s.i + 1 = Len(s.containers) THEN 0 ELSE s.i + 1]

\* one iteration of  for i, container := range containers:  prepareMounts
\* succeeds or fails (mountsOk), and a failing call may or may not have
\* created the working directory already (created); after a failure the
\* handler goes on to its error branch
LoopIteration(w, mountsOk, created) ==
    LET s == w.hs
        container == s.containers[s.i + 1]
        s1 == Call([s EXCEPT !.agg = AggregateContainer(@, container)],
                   "prepareMounts", s.i, mountsOk)
        d1 == IF mountsOk \/ created THEN w.dirs \cup {s.filesPath} ELSE w.dirs
    IN IF ~mountsOk
       THEN [w EXCEPT !.dirs = d1, !.hs = [s1 EXCEPT !.pc = "MountsError"]]
       ELSE LET cc == ContainerCommandOf(s, s.i, container, prepareMounts(container))
                s2 == Call(Call(Call(s1, "prepareEnvs", s.i, TRUE), "prepareImage", s.i, TRUE),
                           "prepareCommand", s.i, TRUE)
            IN [w EXCEPT !.dirs = d1,
                         !.hs = [s2 EXCEPT !.runtime_command_pod = Append(@, cc), !.i = @ + 1]]

\* path, err := produceSLURMScript(..., runtime_command_pod, resourceLimits,
\* isDefaultCPU, isDefaultRam): the script is written into the working
\* directory; a failing call may have created the directory (created)
ScriptStep(w, ok, created) ==
    LET s == w.hs
        args == [called |-> TRUE, podUID |-> s.data.UID, filesPath |-> s.filesPath,
                 commands |-> s.runtime_command_pod, limits |-> Handed(s.agg)]
        s1 == Call([s EXCEPT !.scriptArgs = args], "produceSLURMScript", s.data.UID, ok)
        d1 == IF ok \/ created THEN w.dirs \cup {s.filesPath} ELSE w.dirs
    IN IF ~ok
       THEN [w EXCEPT !.dirs = d1, !.hs = [s1 EXCEPT !.pc = "ScriptRemoveAll"]]
       ELSE [w EXCEPT !.dirs = d1, !.hs = [s1 EXCEPT !.pc = "BatchSubmit"]]

\* a failed submission to the scheduler that is tried a second time
SubmitStepRetryOnce(w, ok) ==
    LET s == w.hs
        s1 == Call(s, "SLURMBatchSubmit", s.data.UID, ok)
        tried == \E k \in DOMAIN s.calls : s.calls[k].op = "SLURMBatchSubmit"
    IN IF ~ok /\ ~tried
       THEN [w EXCEPT !.hs = s1]
       ELSE IF ~ok
       THEN [w EXCEPT !.hs = [s1 EXCEPT !.pc = "SubmitError"]]
       ELSE [w EXCEPT !.nextJob = @ + 1,
                      !.hs = [s1 EXCEPT !.out = w.nextJob, !.pc = "HandleJid"]]

\* out, err := SLURMBatchSubmit(h.Ctx, h.Config, path): on success the
\* scheduler has a new job and out names its number
SubmitStep(w, ok) ==
    LET s == w.hs
        s1 == Call(s, "SLURMBatchSubmit", s.data.UID, ok)
    IN IF ~ok
       THEN [w EXCEPT !.hs = [s1 EXCEPT !.pc = "SubmitError"]]
       ELSE [w EXCEPT !.nextJob = @ + 1,
                      !.hs = [s1 EXCEPT !.out = w.nextJob, !.pc = "HandleJid"]]

\* jid, err := handleJidAndPodUid(h.Ctx, data.Pod, h.JIDs, out, filesPath):
\* on success the store maps the pod to the job parsed from out; a failing
\* call may have stored the entry before it failed (recorded), and the
\* handler goes on to its error branch
JidStep(w, ok, recorded) ==
    LET s == w.hs
        s1 == Call(s, "handleJidAndPodUid", s.data.UID, ok)
        entry == <<s.data.UID, s.out>>
        J1 == IF ok \/ recorded
              THEN {e \in w.JIDs : e[1] # s.data.UID} \cup {entry}
              ELSE w.JIDs
    IN IF ~ok
       THEN [w EXCEPT !.JIDs = J1, !.hs = [s1 EXCEPT !.pc = "JidError"]]
       ELSE [w EXCEPT !.JIDs = J1, !.hs = [s1 EXCEPT !.jid = s.out, !.pc = "Respond"]]

\* h.handleError(spanCtx, w, http.StatusGatewayTimeout, err) of the
\* job-id error branch
JidErrorStep(w) ==
    [w EXCEPT !.hs = [handleError(@, StatusGatewayTimeout) EXCEPT !.pc = "JidRemoveAll"]]

\* os.RemoveAll(filesPath) of the job-id error branch
JidRemoveAllStep(w) ==
    [RemoveAll(w, w.hs.filesPath) EXCEPT !.hs.pc = "JidDelete"]

\* a job-id error branch that returns without the compensation
JidDeleteStepNoCompensation(w, ok, forgot) == Done(w, "jid")

\* err = deleteContainer(spanCtx, h.Config, string(data.Pod.UID), h.JIDs,
\* filesPath); if err != nil its error is only logged; return
JidDeleteStep(w, ok, forgot) ==
    Done(deleteContainer(w, w.hs.data.UID, w.hs.filesPath, ok, forgot), "jid")

\* returnedJID = CreateStruct{PodUID, PodJID}; json.Marshal of two strings
\* does not fail; w.WriteHeader(statusCode); w.Write(returnedJIDBytes)
RespondStep(w) ==
    Done([w EXCEPT !.hs.resp = [written |-> TRUE, status |-> StatusOK, kind |-> "jid",
                                PodUID |-> w.hs.data.UID, PodJID |-> w.hs.jid]], "none")

ConcContainerLimits ==
    {[cpuMilli |-> 0, memory |-> 0], [cpuMilli |-> 1200, memory |-> MiB]}

\* the requests of a submission that meets another one: fewer containers
\* and limits; the pods of one UID have regular containers only, those of
\* the other init-containers only
ConcRequests(uid) ==
    {[readable |-> FALSE, wellFormed |-> FALSE, pod |-> NoPod],
     [readable |-> TRUE, wellFormed |-> FALSE, pod |-> NoPod]}
    \cup UNION {{[readable |-> TRUE, wellFormed |-> TRUE,
                  pod |-> MkPod(uid, ns, lims, numInit)] :
                    ns \in Namespaces, lims \in [1..n -> ConcContainerLimits],
                    numInit \in {IF uid = <<"u", "1">> THEN 0 ELSE n}} :
                n \in 0..MaxConcContainers}

----------------------------------------------------------------------------
(* Actions *)

NoneRunning == \A q \in PodUIDs : h[q].pc \in {"idle", "returned"}

\* a request for pod p arrives when no submission is running; every pod is
\* submitted once, the first with any of Requests, the one that follows
\* another submission with any of ConcRequests
Receive(p) ==
    /\ h[p].pc = "idle"
    /\ NoneRunning
    /\ \E req \in (IF \A q \in PodUIDs : h[q].pc = "idle"
                    THEN Requests(p) ELSE ConcRequests(p)) :
          h' = [h EXCEPT ![p] = [IdleHandler EXCEPT !.pc = "ReadBody", !.request = req]]
    /\ UNCHANGED <<config, JIDs, dirs, nextJob, asm, mem>>

ReadBody(p) ==
    /\ h[p].pc = "ReadBody"
    /\ Commit(p, ReadBodyStep(World(p)))

CreateRuntime(p) ==
    /\ h[p].pc = "CreateRuntime"
    /\ Commit(p, CreateRuntimeStep(World(p)))

Unmarshal(p) ==
    /\ h[p].pc = "Unmarshal"
    /\ Commit(p, UnmarshalStep(World(p)))

Loop(p) ==
    /\ h[p].pc = "Loop"
    /\ h[p].i < Len(h[p].containers)
    /\ \/ Commit(p, LoopIteration(World(p), TRUE, TRUE))
       \/ \E created \in BOOLEAN : Commit(p, LoopIteration(World(p), FALSE, created))

ProduceScript(p) ==
    /\ h[p].pc = "Loop"
    /\ h[p].i = Len(h[p].containers)
    /\ \/ Commit(p, ScriptStep(World(p), TRUE, TRUE))
       \/ \E created \in BOOLEAN : Commit(p, ScriptStep(World(p), FALSE, created))

MountsError(p) ==
    /\ h[p].pc = "MountsError"
    /\ Commit(p, MountsErrorStep(World(p)))

MountsRemoveAll(p) ==
    /\ h[p].pc = "MountsRemoveAll"
    /\ Commit(p, MountsRemoveAllStep(World(p)))

ScriptRemoveAll(p) ==
    /\ h[p].pc = "ScriptRemoveAll"
    /\ Commit(p, ScriptRemoveAllStep(World(p)))

SubmitError(p) ==
    /\ h[p].pc = "SubmitError"
    /\ Commit(p, SubmitErrorStep(World(p)))

SubmitRemoveAll(p) ==
    /\ h[p].pc = "SubmitRemoveAll"
    /\ Commit(p, SubmitRemoveAllStep(World(p)))

BatchSubmit(p) ==
    /\ h[p].pc = "BatchSubmit"
    /\ \E ok \in BOOLEAN : Commit(p, SubmitStep(World(p), ok))

HandleJid(p) ==
    /\ h[p].pc = "HandleJid"
    /\ \/ Commit(p, JidStep(World(p), TRUE, TRUE))
       \/ \E recorded \in BOOLEAN : Commit(p, JidStep(World(p), FALSE, recorded))

JidError(p) ==
    /\ h[p].pc = "JidError"
    /\ Commit(p, JidErrorStep(World(p)))

JidRemoveAll(p) ==
    /\ h[p].pc = "JidRemoveAll"
    /\ Commit(p, JidRemoveAllStep(World(p)))

JidDelete(p) ==
    /\ h[p].pc = "JidDelete"
    /\ \/ Commit(p, JidDeleteStep(World(p), TRUE, TRUE))
       \/ \E forgot \in BOOLEAN : Commit(p, JidDeleteStep(World(p), FALSE, forgot))

Respond(p) ==
    /\ h[p].pc = "Respond"
    /\ Commit(p, RespondStep(World(p)))

\* the handler has returned: its locals are gone, the caller has its response
Return(p) ==
    /\ h[p].pc = "done"
    /\ h' = [h EXCEPT ![p] = [IdleHandler EXCEPT !.pc = "returned", !.resp = h[p].resp]]
    /\ UNCHANGED <<config, JIDs, dirs, nextJob, asm, mem>>

NoAsm == [pc |-> "none", containerRuntime |-> "nil", commstr1 |-> <<>>, envs |-> <<>>,
          mounts |-> <<>>, image |-> <<>>, name |-> <<>>, uid |-> <<>>,
          runtime_command |-> <<>>]

Init ==
    /\ config \in [ContainerRuntime : RuntimeNames, DataRootFolder : {<<"d", "/">>}]
    /\ h = [p \in PodUIDs |-> IdleHandler]
    /\ JIDs = {}
    /\ dirs = {}
    /\ nextJob = 1
    /\ asm = NoAsm
    /\ mem = NoMem

Next ==
    \E p \in PodUIDs :
        \/ Receive(p)
        \/ ReadBody(p)
        \/ CreateRuntime(p)
        \/ Unmarshal(p)
        \/ Loop(p)
        \/ ProduceScript(p)
        \/ BatchSubmit(p)
        \/ HandleJid(p)
        \/ MountsError(p)
        \/ MountsRemoveAll(p)
        \/ ScriptRemoveAll(p)
        \/ SubmitError(p)
        \/ SubmitRemoveAll(p)
        \/ JidError(p)
        \/ JidRemoveAll(p)
        \/ JidDelete(p)
        \/ Respond(p)
        \/ Return(p)

Spec == Init /\ [][Next]_vars

----------------------------------------------------------------------------
(* Command assembly on arbitrary fragments: the collaborators' results are *)
(* drawn from sets of character strings and lines 164-177 are applied.     *)

FragmentAlphabet == {":", "r", "o", "a"}
TokenLists == {<< <<"a">> >>, << <<"a">>, <<"a", ":", "r", "o">> >>}
ContainerNames == {<<"c">>, <<"c", ":", "r">>}
UIDStrings == {<<"u">>, <<"o", "u">>}

InitAssemble ==
    /\ config \in [ContainerRuntime : SupportedRuntimes, DataRootFolder : {<<"d", "/">>}]
    /\ h = [p \in PodUIDs |-> IdleHandler]
    /\ JIDs = {}
    /\ dirs = {}
    /\ nextJob = 1
    /\ asm \in [pc : {"start"}, containerRuntime : {config.ContainerRuntime},
                commstr1 : TokenLists, envs : TokenLists,
                mounts : StringsUpTo(FragmentAlphabet, MaxFragLen),
                image : {<<"i">>}, name : ContainerNames, uid : UIDStrings,
                runtime_command : {<<>>}]
    /\ mem = NoMem

Assemble ==
    /\ asm.pc = "start"
    /\ asm' = [asm EXCEPT !.pc = "assembled",
                          !.runtime_command =
                              AssembleCommand(asm.containerRuntime, asm.commstr1, asm.envs,
                                              asm.mounts, asm.image, asm.name, asm.uid)]
    /\ UNCHANGED <<config, h, JIDs, dirs, nextJob, mem>>

NextAssemble == Assemble

SpecAssemble == InitAssemble /\ [][NextAssemble]_vars

----------------------------------------------------------------------------
(* parseMem on arbitrary tokens.                                           *)

TokenAlphabet == {"0", "1", "7", "K", "M", "G", "k", "B", "-"}

\* tokens around the largest int64: the largest digit field and the
\* largest field of each unit, each with its successor; leading zeros
LongTokens ==
    {<<"9", "2", "2", "3", "3", "7", "2", "0", "3", "6", "8", "5", "4", "7", "7", "5", "8", "0", "7">>,
     <<"9", "2", "2", "3", "3", "7", "2", "0", "3", "6", "8", "5", "4", "7", "7", "5", "8", "0", "8">>,
     <<"9", "0", "0", "7", "1", "9", "9", "2", "5", "4", "7", "4", "0", "9", "9", "1", "K">>,
     <<"9", "0", "0", "7", "1", "9", "9", "2", "5", "4", "7", "4", "0", "9", "9", "2", "K">>,
     <<"8", "7", "9", "6", "0", "9", "3", "0", "2", "2", "2", "0", "7", "M">>,
     <<"8", "7", "9", "6", "0", "9", "3", "0", "2", "2", "2", "0", "8", "M">>,
     <<"8", "5", "8", "9", "9", "3", "4", "5", "9", "1", "G">>,
     <<"8", "5", "8", "9", "9", "3", "4", "5", "9", "2", "G">>,
     <<"0", "0", "0", "0", "0", "0", "0", "0", "0", "0", "0", "0", "0", "0", "0", "0", "0", "0", "1", "7", "G">>,
     <<"9", "9", "9", "9", "9", "9", "9", "9", "9", "9", "9", "9", "9", "9", "9", "9", "9", "9", "9", "9">>,
     <<"9", "2", "2", "3", "3", "7", "2", "0", "3", "6", "8", "5", "4", "7", "7", "5", "8", "0", "8", "K">>}

InitParseMem ==
    /\ config \in [ContainerRuntime : SupportedRuntimes, DataRootFolder : {<<"d", "/">>}]
    /\ h = [p \in PodUIDs |-> IdleHandler]
    /\ JIDs = {}
    /\ dirs = {}
    /\ nextJob = 1
    /\ asm = NoAsm
    /\ mem \in [pc : {"start"},
                val : StringsUpTo(TokenAlphabet, MaxTokenLen) \cup LongTokens,
                value : {<<>>}, err : {FALSE}]

ParseMem ==
    /\ mem.pc = "start"
    /\ LET r == parseMem(mem.val)
       IN  mem' = [mem EXCEPT !.pc = "parsed", !.value = r.value, !.err = r.err]
    /\ UNCHANGED <<config, h, JIDs, dirs, nextJob, asm>>

NextParseMem == ParseMem

SpecParseMem == InitParseMem /\ [][NextParseMem]_vars

----------------------------------------------------------------------------
(* Concurrent submissions: net/http runs every SubmitHandler call in its   *)
(* own goroutine, so the handlers of different pods interleave stage by    *)
(* stage.  The job-tracking store is taken to be concurrency-safe, so an   *)
(* insert or a removal is one step.                                        *)

\* a request for pod p arrives while other submissions may be running
ConcReceive(p) ==
    /\ h[p].pc = "idle"
    /\ \E req \in ConcRequests(p) :
          h' = [h EXCEPT ![p] = [IdleHandler EXCEPT !.pc = "ReadBody", !.request = req]]
    /\ UNCHANGED <<config, JIDs, dirs, nextJob, asm, mem>>

NextConc ==
    \E p \in PodUIDs :
        \/ ConcReceive(p)
        \/ ReadBody(p)
        \/ CreateRuntime(p)
        \/ Unmarshal(p)
        \/ Loop(p)
        \/ ProduceScript(p)
        \/ BatchSubmit(p)
        \/ HandleJid(p)
        \/ MountsError(p)
        \/ MountsRemoveAll(p)
        \/ ScriptRemoveAll(p)
        \/ SubmitError(p)
        \/ SubmitRemoveAll(p)
        \/ JidError(p)
        \/ JidRemoveAll(p)
        \/ JidDelete(p)
        \/ Respond(p)
        \/ Return(p)

SpecConc == Init /\ [][NextConc]_vars

----------------------------------------------------------------------------
(* Submissions that run to their end: every goroutine that serves a        *)
(* request keeps being scheduled and every collaborator call returns, so   *)
(* a handler that can take its next step eventually takes it.              *)

LiveContainerLimits == {[cpuMilli |-> 400, memory |-> 0]}

LiveRequests(uid) ==
    {[readable |-> FALSE, wellFormed |-> FALSE, pod |-> NoPod],
     [readable |-> TRUE, wellFormed |-> FALSE, pod |-> NoPod]}
    \cup UNION {{[readable |-> TRUE, wellFormed |-> TRUE,
                  pod |-> MkPod(uid, ns, lims, numInit)] :
                     ns \in Namespaces, lims \in [1..n -> LiveContainerLimits],
                     numInit \in {0, n}} : n \in 0..MaxLiveContainers}

LiveReceive(p) ==
    /\ h[p].pc = "idle"
    /\ \E req \in LiveRequests(p) :
          h' = [h EXCEPT ![p] = [IdleHandler EXCEPT !.pc = "ReadBody", !.request = req]]
    /\ UNCHANGED <<config, JIDs, dirs, nextJob, asm, mem>>

\* the next step of the handler that serves pod p
HandlerStep(p) ==
    \/ ReadBody(p)
    \/ CreateRuntime(p)
    \/ Unmarshal(p)
    \/ Loop(p)
    \/ ProduceScript(p)
    \/ BatchSubmit(p)
    \/ HandleJid(p)
    \/ MountsError(p)
    \/ MountsRemoveAll(p)
    \/ ScriptRemoveAll(p)
    \/ SubmitError(p)
    \/ SubmitRemoveAll(p)
    \/ JidError(p)
    \/ JidRemoveAll(p)
    \/ JidDelete(p)
    \/ Respond(p)
    \/ Return(p)

NextLive == \E p \in PodUIDs : LiveReceive(p) \/ HandlerStep(p)

SpecLive == Init /\ [][NextLive]_vars /\ \A p \in PodUIDs : WF_vars(HandlerStep(p))

----------------------------------------------------------------------------
(* Properties of the submission path *)

ContainerLevelOps == {"prepareMounts", "prepareEnvs", "prepareImage", "prepareCommand"}
SchedulerOps == {"produceSLURMScript", "SLURMBatchSubmit"}

CallsOf(p, op) == {k \in DOMAIN h[p].calls : h[p].calls[k].op = op}

Finished(p) == h[p].pc = "done"

\* C1: script generation and job submit are invoked only after prepareMounts
\* has succeeded for every container of the pod, in order, and each has its
\* command recorded; after a failed prepareMounts no container-level
\* collaborator, script generation or submit is invoked in that submission.
C1_StagedSideEffects ==
    \A p \in PodUIDs :
        LET cs == h[p].calls
            n == Len(h[p].containers)
        IN /\ \A k \in DOMAIN cs :
                cs[k].op \in SchedulerOps =>
                    /\ \A i \in 0..(n - 1) :
                          \E j \in 1..(k - 1) :
                              cs[j] = [op |-> "prepareMounts", arg |-> i, ok |-> TRUE]
                    /\ \A j \in 1..(k - 1) : cs[j].op = "prepareMounts" => cs[j].ok
                    /\ Len(h[p].runtime_command_pod) = n
           /\ \A k \in DOMAIN cs :
                (cs[k].op = "prepareMounts" /\ ~cs[k].ok) =>
                    \A j \in (k + 1)..Len(cs) :
                        cs[j].op \notin (ContainerLevelOps \cup SchedulerOps)

\* C1 witness: prepareMounts fails on the second of three containers
C1_Witness ==
    \E p \in PodUIDs :
        /\ Finished(p)
        /\ h[p].failed = "mounts"
        /\ Len(h[p].containers) = 3
        /\ h[p].i = 1
        /\ [op |-> "prepareMounts", arg |-> 0, ok |-> TRUE] \in
               {h[p].calls[k] : k \in DOMAIN h[p].calls}

SuccessResponse(p) ==
    /\ h[p].resp.written
    /\ h[p].resp.status = StatusOK
    /\ h[p].resp.kind = "jid"
    /\ h[p].resp.PodUID = p

ErrorResponse(p) ==
    /\ h[p].resp.written
    /\ h[p].resp.kind = "error"
    /\ h[p].resp.status \in {StatusInternalServerError, StatusGatewayTimeout}

\* C2: a finished submission has written exactly one of two responses:
\* success with {pod id, job id} when every stage succeeded, an error
\* status when a stage failed.
C2_OneOfTwoResponses ==
    \A p \in PodUIDs :
        Finished(p) =>
            /\ h[p].failed = "none" => (SuccessResponse(p) /\ h[p].resp.PodJID = h[p].jid)
            /\ h[p].failed # "none" => ErrorResponse(p)

\* C3: when job-id recording fails after the submit, deleteContainer is
\* invoked exactly once, with the pod's identifier, before the working
\* directory is removed.
C3_CompensateBeforeRemoval ==
    \A p \in PodUIDs :
        (Finished(p) /\ h[p].failed = "jid") =>
            /\ Cardinality(CallsOf(p, "deleteContainer")) = 1
            /\ \A k \in CallsOf(p, "deleteContainer") :
                  /\ h[p].calls[k].arg = p
                  /\ \A j \in CallsOf(p, "RemoveAll") : k < j

\* C4: after a failure of mount preparation, script generation or job
\* submit the working directory is gone when the handler returns and
\* deleteContainer was not invoked; nor is it invoked on success.
C4_CleanupWithoutCompensation ==
    \A p \in PodUIDs :
        Finished(p) =>
            /\ h[p].failed \in {"mounts", "script", "submit"} =>
                  /\ h[p].filesPath \notin dirs
                  /\ CallsOf(p, "deleteContainer") = {}
            /\ h[p].failed = "none" => CallsOf(p, "deleteContainer") = {}

\* C4 witness: script generation fails after the working directory exists
C4_Witness ==
    \E p \in PodUIDs :
        /\ Finished(p)
        /\ h[p].failed = "script"
        /\ Len(h[p].containers) >= 2
        /\ \E k \in CallsOf(p, "prepareMounts") : h[p].calls[k].ok

EntriesOf(p) == {e \in JIDs : e[1] = p}

Responded(p) == h[p].pc \in {"done", "returned"}

\* on the error branch of job-id recording, before deleteContainer is done
Compensating(p) == h[p].pc \in {"JidError", "JidRemoveAll", "JidDelete"}

\* the compensation of submission p was attempted and returned an error
CompensationFailed(p) ==
    \E k \in CallsOf(p, "deleteContainer") : ~h[p].calls[k].ok

\* C5 as stated: the store holds an entry for a pod only if its submission
\* ended in success: a submission that has ended in failure, at whatever
\* stage, has left no entry, and one that has ended in success has left
\* exactly one, with the job id returned to the caller.
C5_StoreTracksSuccess ==
    \A p \in PodUIDs :
        Responded(p) =>
            EntriesOf(p) = IF h[p].resp.kind = "jid"
                           THEN {<<p, h[p].resp.PodJID>>}
                           ELSE {}

\* what the store may hold for pod p, by the stage its submission is at
StoreTracksOutcome(p) ==
    /\ Cardinality(EntriesOf(p)) <= 1
    /\ EntriesOf(p) # {} =>
          \/ h[p].pc = "Respond"
          \/ Compensating(p)
          \/ Responded(p) /\ h[p].resp.kind = "jid"
          \/ Finished(p) /\ h[p].failed = "jid" /\ CompensationFailed(p)
          \/ h[p].pc = "returned" /\ h[p].resp.kind = "error"
                /\ h[p].resp.status = StatusGatewayTimeout
    /\ (Responded(p) /\ h[p].resp.kind = "jid") =>
          EntriesOf(p) = {<<p, h[p].resp.PodJID>>}
    /\ (Finished(p) /\ h[p].failed # "none"
          /\ ~(h[p].failed = "jid" /\ CompensationFailed(p))) => EntriesOf(p) = {}
    /\ (Finished(p) /\ h[p].failed = "jid") => EntriesOf(p) \subseteq {<<p, h[p].out>>}

\* the entries of pod p change only in the two store calls of p's own
\* handler: the recording and the compensation
StoreChangesInStoreCalls(p) ==
    EntriesOf(p)' # EntriesOf(p) => h[p].pc \in {"HandleJid", "JidDelete"}

\* C5 amended: the store holds an entry for a pod only if its submission
\* ended in success, or failed at job-id recording and the compensation
\* that followed returned an error; a submission that fails at an earlier
\* stage, or at job-id recording with a compensation that succeeds, leaves
\* no entry; a successful one leaves exactly one, with the job id returned
\* to the caller; and what a submission has left when it returns stays as
\* it is through the submissions that follow.
C5_StoreTracksOutcome ==
    /\ [](\A p \in PodUIDs : StoreTracksOutcome(p))
    /\ [][\A p \in PodUIDs : StoreChangesInStoreCalls(p)]_vars

\* C5 witness: one pod has succeeded and returned; the other has failed at
\* job-id recording after its entry was stored, and its compensation has
\* failed and left the entry
C5_Witness ==
    \E p, q \in PodUIDs :
        /\ p # q
        /\ h[p].pc = "returned"
        /\ h[p].resp.kind = "jid"
        /\ Finished(q)
        /\ h[q].failed = "jid"
        /\ CompensationFailed(q)
        /\ JIDs = {<<p, h[p].resp.PodJID>>, <<q, h[q].out>>}

----------------------------------------------------------------------------
(* Properties of the limits handed to script generation *)

\* produceSLURMScript has just been called with h[p].scriptArgs
HandedOver(p) ==
    /\ h[p].scriptArgs.called
    /\ \/ h[p].pc \in {"BatchSubmit", "ScriptRemoveAll"}
       \/ Finished(p) /\ h[p].failed = "script"

\* the CPU limit of a container in whole CPUs, rounded up: the least n
\* with n * 1000 >= cpuMilli
RoundedUp(cpuMilli) ==
    CHOOSE n \in 0..(cpuMilli \div 1000 + 1) :
        n * 1000 >= cpuMilli /\ (n = 0 \/ (n - 1) * 1000 < cpuMilli)

SetMax(S) == CHOOSE x \in S : \A y \in S : y <= x

DeclaredCPU(cs) == {RoundedUp(cs[k].cpuMilli) : k \in DOMAIN cs} \ {0}
DeclaredMemory(cs) == {cs[k].memory : k \in DOMAIN cs} \ {0}

\* C6: for a non-empty pod with no declared CPU limit the CPU handed to
\* script generation is 1 with the CPU-default flag set; with no declared
\* memory limit the memory handed is 1,048,576 with the memory-default
\* flag set; the limits handed are never zero.
C6_DefaultFloor ==
    \A p \in PodUIDs :
        (HandedOver(p) /\ Len(h[p].containers) >= 1) =>
            LET lim == h[p].scriptArgs.limits IN
            /\ DeclaredCPU(h[p].containers) = {} => (lim.CPU = 1 /\ lim.isDefaultCPU)
            /\ DeclaredMemory(h[p].containers) = {} =>
                  (lim.Memory = 1048576 /\ lim.isDefaultRam)
            /\ lim.CPU # 0
            /\ lim.Memory # 0

\* C7: when some container declares a CPU limit, the CPU handed to script
\* generation is the maximum of the limits rounded up and the CPU-default
\* flag is false; likewise the memory handed is the maximum declared
\* memory limit with the memory-default flag false.
C7_MaximumPolicy ==
    \A p \in PodUIDs :
        HandedOver(p) =>
            LET lim == h[p].scriptArgs.limits
                cpus == DeclaredCPU(h[p].containers)
                mems == DeclaredMemory(h[p].containers)
            IN /\ cpus # {} => (lim.CPU = SetMax(cpus) /\ ~lim.isDefaultCPU)
               /\ mems # {} => (lim.Memory = SetMax(mems) /\ ~lim.isDefaultRam)

\* C7 witness: undeclared containers precede and follow the declaring one
C7_Witness ==
    \E p \in PodUIDs :
        /\ HandedOver(p)
        /\ Len(h[p].containers) = 3
        /\ h[p].containers[1].cpuMilli = 0
        /\ h[p].containers[2].cpuMilli = 1200
        /\ h[p].containers[3].cpuMilli = 400
        /\ h[p].containers[1].memory = 0
        /\ h[p].scriptArgs.limits.CPU = 2

Permuted(cs, f) == [k \in DOMAIN cs |-> cs[f[k]]]

\* C8: the limits and default-used flags handed to script generation are
\* those the loop computes on every permutation of the container list.
C8_OrderInvariant ==
    \A p \in PodUIDs :
        HandedOver(p) =>
            \A f \in Permutations(DOMAIN h[p].containers) :
                Handed(AggregateFrom(InitAgg, Permuted(h[p].containers, f)))
                    = h[p].scriptArgs.limits

\* C8 witness: three containers with different CPU limits, largest first
C8_Witness ==
    \E p \in PodUIDs :
        /\ HandedOver(p)
        /\ Len(h[p].containers) = 3
        /\ h[p].containers[1].cpuMilli = 1200
        /\ h[p].containers[2].cpuMilli = 0
        /\ h[p].containers[3].cpuMilli = 400
        /\ h[p].containers[3].memory > h[p].containers[1].memory

PastRuntimeSelection(p) ==
    /\ h[p].pc \notin {"idle", "ReadBody", "CreateRuntime", "returned"}
    /\ h[p].failed # "body"

\* C9: runtime selection succeeds exactly for "singularity" and "enroot";
\* when it fails the handler has responded with an error, no container
\* was processed, no collaborator was invoked and the store has no entry.
C9_RuntimeFailFast ==
    /\ \A p \in PodUIDs :
          PastRuntimeSelection(p) =>
              /\ (h[p].failed # "runtime") <=>
                     (config.ContainerRuntime \in {"singularity", "enroot"})
              /\ (h[p].containerRuntime # "nil") <=> (h[p].failed # "runtime")
              /\ h[p].failed = "runtime" =>
                     /\ Finished(p)
                     /\ ErrorResponse(p)
                     /\ h[p].calls = <<>>
                     /\ h[p].runtime_command_pod = <<>>
                     /\ ~h[p].scriptArgs.called
    /\ config.ContainerRuntime \notin {"singularity", "enroot"} =>
          /\ JIDs = {}
          /\ dirs = {}
          /\ \A p \in PodUIDs : h[p].calls = <<>>

\* C9 witness: a pod with containers is refused for an unknown runtime
C9_Witness ==
    \E p \in PodUIDs :
        /\ Finished(p)
        /\ h[p].failed = "runtime"
        /\ config.ContainerRuntime = "docker"
        /\ h[p].request.wellFormed
        /\ Len(h[p].request.pod.Containers) >= 2

----------------------------------------------------------------------------
(* Properties of the command assembly *)

Assembled == asm.pc = "assembled"

HasRo(s) == Contains(s, RoMarker)

\* C10 as stated: with enroot no token of the assembled command contains
\* ":ro", whatever the mount fragment, prefix and environment tokens.
C10_NoReadOnlyMarker ==
    (Assembled /\ asm.containerRuntime = "enroot") =>
        \A k \in DOMAIN asm.runtime_command : ~HasRo(asm.runtime_command[k])

\* a marker nested around another one: removing the inner marker joins
\* the pieces of the outer one
NestedMarker(s) ==
    \/ Contains(s, <<":">> \o RoMarker)
    \/ Contains(s, <<":", "r">> \o RoMarker)

\* C10 amended: with enroot only the mount fragment is stripped, in one
\* pass: a token of the assembled command contains ":ro" only if it is a
\* prefix or environment token, or the generated name, that contained it
\* already, or the mount token of a fragment with a nested marker.
C10_MarkersRemoved ==
    (Assembled /\ asm.containerRuntime = "enroot") =>
        LET cmd == asm.runtime_command
            given == asm.commstr1 \o asm.envs
        IN /\ Len(cmd) = Len(given) + 2
           /\ \A k \in DOMAIN cmd :
                 HasRo(cmd[k]) =>
                     \/ k <= Len(given) /\ cmd[k] = given[k]
                     \/ k = Len(given) + 1 /\ NestedMarker(asm.mounts)
                     \/ k = Len(given) + 2 /\ cmd[k] = asm.name \o asm.uid

\* C10 witness: a fragment with a read-only marker is assembled
C10_Witness ==
    /\ Assembled
    /\ asm.containerRuntime = "enroot"
    /\ asm.mounts = <<"a", ":", "r", "o", ":", "r">>
    /\ \A k \in DOMAIN asm.commstr1 : ~HasRo(asm.commstr1[k])
    /\ \A k \in DOMAIN asm.envs : ~HasRo(asm.envs[k])
    /\ ~HasRo(asm.name \o asm.uid)
    /\ \A k \in DOMAIN asm.runtime_command : ~HasRo(asm.runtime_command[k])

----------------------------------------------------------------------------
(* Properties of concurrent submissions *)

StageOps == {"prepareMounts", "produceSLURMScript", "SLURMBatchSubmit", "handleJidAndPodUid"}

Running(p) == h[p].pc \notin {"idle", "returned"}

\* the stages between a written script and the response still use the
\* working directory
UsesWorkingDir(p) ==
    \/ h[p].pc \in {"BatchSubmit", "SubmitError", "SubmitRemoveAll",
                    "HandleJid", "Respond", "JidError", "JidRemoveAll"}
    \/ Finished(p) /\ h[p].failed = "none"

\* what the request of submission p asks for, whatever else is submitted
OwnContainers(p) == h[p].request.pod.InitContainers \o h[p].request.pod.Containers

OwnPath(p) == config.DataRootFolder \o h[p].request.pod.Namespace \o <<"-">> \o p

OwnLimits(p) ==
    LET cs == OwnContainers(p) IN
    [CPU |-> SetMax(DeclaredCPU(cs) \cup {0}),
     Memory |-> SetMax(DeclaredMemory(cs) \cup {0}),
     isDefaultCPU |-> DeclaredCPU(cs) = {},
     isDefaultRam |-> DeclaredMemory(cs) = {}]

\* the k-th command handed on is the command of the k-th container of the
\* request of p, and under enroot it carries the name made of p's UID
OwnCommand(p, k, cmd) ==
    LET c == OwnContainers(p)[k] IN
    /\ cmd.containerName = c.name
    /\ cmd.containerImage = prepareImage(c.image)
    /\ cmd.isInitContainer = (k <= Len(h[p].request.pod.InitContainers))
    /\ config.ContainerRuntime = "enroot" =>
          cmd.runtimeCommand[Len(cmd.runtimeCommand)] = c.name \o p
    /\ config.ContainerRuntime = "singularity" =>
          cmd.runtimeCommand[Len(cmd.runtimeCommand)] = prepareImage(c.image)

\* the status of the error response by the stage that failed
ErrorStatus(stage) ==
    IF stage \in {"body", "runtime"} THEN StatusInternalServerError ELSE StatusGatewayTimeout

\* the locals and the response of submission p are those its own request
\* and its own collaborator results determine
OwnLocals(p) ==
    /\ h[p].filesPath # <<>> => h[p].filesPath = OwnPath(p)
    /\ h[p].scriptArgs.called =>
          LET args == h[p].scriptArgs IN
          /\ args.podUID = p
          /\ args.filesPath = OwnPath(p)
          /\ args.limits = OwnLimits(p)
          /\ Len(args.commands) = Len(OwnContainers(p))
          /\ \A k \in DOMAIN args.commands : OwnCommand(p, k, args.commands[k])
    /\ Finished(p) =>
          CASE h[p].failed = "none" ->
                  h[p].resp = [written |-> TRUE, status |-> StatusOK, kind |-> "jid",
                               PodUID |-> p, PodJID |-> h[p].out]
            [] h[p].failed = "script" -> ~h[p].resp.written
            [] OTHER ->
                  h[p].resp = [written |-> TRUE, status |-> ErrorStatus(h[p].failed),
                               kind |-> "error", PodUID |-> <<>>, PodJID |-> 0]

\* the working directories of pod p: the paths that end in its UID
DirsOf(p) == {d \in dirs : Len(d) >= Len(p) /\ SubSeq(d, Len(d) - Len(p) + 1, Len(d)) = p}

\* the part of the shared state that belongs to pod p is as p's own
\* handler has left it
OwnShare(p) ==
    /\ UsesWorkingDir(p) => DirsOf(p) = {OwnPath(p)}
    /\ (Finished(p) /\ h[p].failed # "none") => DirsOf(p) = {}
    /\ Running(p) => DirsOf(p) \subseteq {OwnPath(p)}

NoForeignShare ==
    /\ \A d \in dirs : \E p \in PodUIDs : d \in DirsOf(p)
    /\ \A e \in JIDs : e[1] \in PodUIDs
    /\ \A p, q \in PodUIDs :
          (p # q /\ Responded(p) /\ Responded(q)
             /\ h[p].resp.kind = "jid" /\ h[q].resp.kind = "jid") =>
                h[p].resp.PodJID # h[q].resp.PodJID

\* a step that is not a step of p's handler leaves p's directory and p's
\* entry of the store as they are
OthersLeaveShare(p) ==
    h[p]' = h[p] => (DirsOf(p)' = DirsOf(p) /\ EntriesOf(p)' = EntriesOf(p))

\* all submissions have ended
AllEnded == \A p \in PodUIDs : Responded(p)

\* C11 as stated: under every interleaving of the submissions of two pods
\* each submission's limits, command list, working-directory path and
\* response are those its own request determines, and once the
\* submissions have ended the store holds exactly the entries of those
\* that succeeded.
C11_NoInterference ==
    /\ \A p \in PodUIDs : Running(p) => (OwnLocals(p) /\ OwnShare(p))
    /\ NoForeignShare
    /\ AllEnded => JIDs = {<<p, h[p].resp.PodJID>> : p \in {q \in PodUIDs : h[q].resp.kind = "jid"}}

\* C11 amended: under every interleaving of the submissions of two pods
\* each submission's limits, command list, working-directory path and
\* response are those its own request and its own collaborator results
\* determine, as when it runs alone; no step of one handler touches the
\* other pod's working directory or store entry; and the store holds, for
\* each pod, exactly what its own submission has left: the entry of a
\* success, nothing after a failure, except the entry that a failed
\* compensation has left behind.
C11_NoInterferenceBestEffort ==
    /\ [](/\ \A p \in PodUIDs : Running(p) => (OwnLocals(p) /\ OwnShare(p))
          /\ NoForeignShare
          /\ \A p \in PodUIDs : StoreTracksOutcome(p))
    /\ [][\A p \in PodUIDs : OthersLeaveShare(p)]_vars

\* C11 witness: one submission has failed at job-id recording, removed its
\* directory and failed to compensate, leaving its entry, while the other,
\* submitted to the scheduler after it, still waits for its job id
C11_Witness ==
    \E p, q \in PodUIDs :
        /\ p # q
        /\ h[p].pc = "HandleJid"
        /\ h[p].out = 2
        /\ Len(h[p].containers) = 2
        /\ Finished(q)
        /\ h[q].failed = "jid"
        /\ h[q].out = 1
        /\ Len(h[q].containers) = 2
        /\ CompensationFailed(q)
        /\ EntriesOf(q) = {<<q, 1>>}

----------------------------------------------------------------------------
(* C12 *)

MemoryUnits == {"K", "M", "G"}

HasUnit(val) == val # <<>> /\ val[Len(val)] \in MemoryUnits

DigitField(val) == IF HasUnit(val) THEN SubSeq(val, 1, Len(val) - 1) ELSE val

\* the grammar of a memory quantity: one digit or more, then at most one unit
InGrammar(val) ==
    /\ DigitField(val) # <<>>
    /\ \A i \in 1..Len(DigitField(val)) : DigitField(val)[i] \in Digits

UnitPower(val) ==
    CASE HasUnit(val) /\ val[Len(val)] = "K" -> 1
      [] HasUnit(val) /\ val[Len(val)] = "M" -> 2
      [] HasUnit(val) /\ val[Len(val)] = "G" -> 3
      [] OTHER -> 0

RECURSIVE StripLeadingZeros(_)
StripLeadingZeros(d) ==
    IF d # <<>> /\ Head(d) = "0" THEN StripLeadingZeros(Tail(d)) ELSE d

\* a <= b for decimal numerals without leading zeros
DecimalLeq(a, b) ==
    \/ Len(a) < Len(b)
    \/ /\ Len(a) = Len(b)
       /\ \/ a = b
          \/ \E i \in 1..Len(a) :
                /\ DigitValue(a[i]) < DigitValue(b[i])
                /\ \A j \in 1..(i - 1) : a[j] = b[j]

\* the largest digit field whose product with the unit is an int64:
\* (2^63 - 1) \div 1024^k
LargestField(k) ==
    CASE k = 0 -> <<"9", "2", "2", "3", "3", "7", "2", "0", "3", "6", "8", "5", "4", "7", "7", "5", "8", "0", "7">>
      [] k = 1 -> <<"9", "0", "0", "7", "1", "9", "9", "2", "5", "4", "7", "4", "0", "9", "9", "1">>
      [] k = 2 -> <<"8", "7", "9", "6", "0", "9", "3", "0", "2", "2", "2", "0", "7">>
      [] k = 3 -> <<"8", "5", "8", "9", "9", "3", "4", "5", "9", "1">>

Representable(val) ==
    DecimalLeq(StripLeadingZeros(DigitField(val)), LargestField(UnitPower(val)))

\* the decimal numeral of an int64 value x >= 0, by repeated division by 10
RECURSIVE ToDecimal(_)
ToDecimal(x) ==
    IF x = <<>> THEN <<>>
    ELSE LET R[i \in 1..(Len(x) + 1)] ==
                 IF i = Len(x) + 1 THEN 0 ELSE (R[i + 1] * LimbBase + x[i]) % 10
             q == [i \in 1..Len(x) |-> (R[i + 1] * LimbBase + x[i]) \div 10]
         IN  ToDecimal(StripZeros(q)) \o <<DigitChar(R[1])>>

\* x is the int64 n * 1024^k >= 0, n given as a decimal numeral
Represents(x, n, k) ==
    /\ \A i \in 1..Len(x) : x[i] \in 0..(LimbBase - 1)
    /\ Len(x) <= Int64Limbs
    /\ Len(x) = Int64Limbs => x[Int64Limbs] < SignLimb
    /\ x # <<>> => x[Len(x)] # 0
    /\ \A i \in 1..k : i <= Len(x) => x[i] = 0
    /\ ToDecimal(SubSeq(x, k + 1, Len(x))) = n

\* C12: a token of digits and an optional unit K, M or G, of a magnitude
\* that an int64 holds, parses to the digit field times 1, 1024, 1024^2 or
\* 1024^3; every token outside this grammar is an error.
C12_ParseMemValue ==
    mem.pc = "parsed" =>
        IF InGrammar(mem.val)
        THEN Representable(mem.val) =>
                /\ ~mem.err
                /\ Represents(mem.value, StripLeadingZeros(DigitField(mem.val)),
                              UnitPower(mem.val))
        ELSE mem.err /\ mem.value = <<>>

\* C12 witness: the largest digit field with unit K
C12_Witness ==
    /\ mem.pc = "parsed"
    /\ mem.val = <<"9", "0", "0", "7", "1", "9", "9", "2", "5", "4", "7", "4", "0", "9", "9", "1", "K">>
    /\ mem.value = <<0, 1023, 1023, 1023, 1023, 1023, 7>>
    /\ ~mem.err

----------------------------------------------------------------------------
(* C13 *)

\* container j of cs is undeclared and so are all containers before it: it
\* is processed while the default-used flag is still set
EstablishesCPUFloor(cs, j) == \A k \in 1..j : cs[k].cpuMilli = 0
EstablishesMemoryFloor(cs, j) == \A k \in 1..j : cs[k].memory = 0

CPUTie(cs) ==
    /\ \E j, k \in DOMAIN cs :
          j < k /\ EstablishesCPUFloor(cs, j) /\ RoundedUp(cs[k].cpuMilli) = 1
    /\ \A k \in DOMAIN cs : RoundedUp(cs[k].cpuMilli) <= 1

MemoryTie(cs) ==
    /\ \E j, k \in DOMAIN cs :
          j < k /\ EstablishesMemoryFloor(cs, j) /\ cs[k].memory = 1048576
    /\ \A k \in DOMAIN cs : cs[k].memory <= 1048576

\* C13: when an undeclared container has established the default floor and
\* a later container declares exactly the floor (a CPU limit rounding to 1,
\* a memory limit of 1,048,576) and no container declares more, the
\* default-used flag handed to script generation is still true.
C13_TieKeepsDefaultFlag ==
    \A p \in PodUIDs :
        HandedOver(p) =>
            LET lim == h[p].scriptArgs.limits IN
            /\ CPUTie(h[p].containers) => lim.isDefaultCPU
            /\ MemoryTie(h[p].containers) => lim.isDefaultRam

----------------------------------------------------------------------------
(* C14 *)

\* the place of a stage in the order of one submission
StageRank(pc) ==
    CASE pc = "idle" -> 0
      [] pc = "ReadBody" -> 1
      [] pc = "CreateRuntime" -> 2
      [] pc = "Unmarshal" -> 3
      [] pc = "Loop" -> 4
      [] pc = "MountsError" -> 5
      [] pc = "MountsRemoveAll" -> 6
      [] pc = "ScriptRemoveAll" -> 5
      [] pc = "BatchSubmit" -> 5
      [] pc = "SubmitError" -> 6
      [] pc = "SubmitRemoveAll" -> 7
      [] pc = "HandleJid" -> 6
      [] pc = "Respond" -> 7
      [] pc = "JidError" -> 7
      [] pc = "JidRemoveAll" -> 8
      [] pc = "JidDelete" -> 9
      [] pc = "done" -> 10
      [] pc = "returned" -> 11

\* the place of a stage collaborator's call: prepareMounts of container
\* number i (from 0) comes before that of i + 1, all of them before script
\* generation, then the submit, then the job recording
CallRank(c, n) ==
    CASE c.op = "prepareMounts" -> c.arg
      [] c.op = "produceSLURMScript" -> n
      [] c.op = "SLURMBatchSubmit" -> n + 1
      [] c.op = "handleJidAndPodUid" -> n + 2

\* the stage collaborators are called in strictly increasing order, so
\* none is called twice, and none is called after one of them has failed
CallsForward(p) ==
    LET cs == h[p].calls
        n == Len(h[p].containers)
    IN \A a, b \in DOMAIN cs :
          (a < b /\ cs[a].op \in StageOps) =>
              /\ cs[b].op \in StageOps => CallRank(cs[a], n) < CallRank(cs[b], n)
              /\ ~cs[a].ok => cs[b].op \notin (StageOps \cup ContainerLevelOps)

\* a step moves a submission to a later stage or to the next container
StepForward(p) ==
    \/ h'[p] = h[p]
    \/ /\ StageRank(h'[p].pc) >= StageRank(h[p].pc)
       /\ \/ StageRank(h'[p].pc) > StageRank(h[p].pc)
          \/ h[p].pc = "Loop" /\ h'[p].i = h[p].i + 1

\* C14: a submission moves through its stages strictly forward; the
\* script-generation, submit and job-recording collaborators are called at
\* most once, prepareMounts at most once per container and in container
\* order, and no stage collaborator is called after the first failure.
C14_StrictlyForward ==
    /\ [](\A p \in PodUIDs : CallsForward(p))
    /\ [][\A p \in PodUIDs : StepForward(p)]_vars

C14_Witness ==
    \E p \in PodUIDs :
        /\ h[p].pc = "done"
        /\ h[p].failed = "submit"
        /\ Len(h[p].containers) = 3
        /\ Len(h[p].data.InitContainers) = 1
        /\ Cardinality(CallsOf(p, "prepareMounts")) = 3
        /\ CallsOf(p, "handleJidAndPodUid") = {}

----------------------------------------------------------------------------
(* C15 *)

Terminal(p) == h[p].pc \in {"done", "returned"}

\* C15: a submission that has entered the per-container loop eventually
\* reaches a terminal state: it has responded with success or has failed.
C15_RunsToTerminalState ==
    \A p \in PodUIDs : (h[p].pc = "Loop") ~> Terminal(p)

\* C15 witness: a submission of MaxLiveContainers containers went through
\* the loop and every later stage and has responded with success
C15_Witness ==
    \E p \in PodUIDs :
        /\ h[p].pc = "done"
        /\ h[p].failed = "none"
        /\ h[p].resp.kind = "jid"
        /\ Len(h[p].containers) = 2
        /\ h[p].i = 2

----------------------------------------------------------------------------
(* C16 *)

\* C16: the command list handed to script generation has one entry per
\* container of the pod, the init-containers in declared order followed by
\* the regular containers in declared order, and an entry is flagged as an
\* init-container exactly when its container is one.
C16_CommandListOrder ==
    \A p \in PodUIDs :
        HandedOver(p) =>
            LET cmds == h[p].scriptArgs.commands
                inits == h[p].request.pod.InitContainers
                regulars == h[p].request.pod.Containers
            IN /\ Len(cmds) = Len(inits) + Len(regulars)
               /\ \A k \in 1..Len(inits) :
                     /\ cmds[k].containerName = inits[k].name
                     /\ cmds[k].isInitContainer
               /\ \A k \in 1..Len(regulars) :
                     /\ cmds[Len(inits) + k].containerName = regulars[k].name
                     /\ ~cmds[Len(inits) + k].isInitContainer

\* C16 witness: a pod of one init-container and two regular containers
C16_Witness ==
    \E p \in PodUIDs :
        /\ HandedOver(p)
        /\ Len(h[p].request.pod.InitContainers) = 1
        /\ Len(h[p].request.pod.Containers) = 2
        /\ Len(h[p].scriptArgs.commands) = 3
        /\ h[p].scriptArgs.commands[1].isInitContainer
        /\ ~h[p].scriptArgs.commands[2].isInitContainer

----------------------------------------------------------------------------
(* C17 *)

\* the mount token: the fragment as prepareMounts returned it for
\* singularity, the fragment without its read-only markers for enroot
MountToken ==
    IF asm.containerRuntime = "enroot"
    THEN ReplaceAll(asm.mounts, RoMarker, <<>>)
    ELSE asm.mounts

\* the trailer: the resolved image for singularity, the container name
\* followed by the pod UID for enroot
TrailerToken ==
    IF asm.containerRuntime = "enroot" THEN asm.name \o asm.uid ELSE asm.image

\* C17: the assembled command is the runtime's prefix tokens, then the
\* environment tokens, then the mount fragment as one token, then the one
\* trailer token, and nothing else.
C17_FixedTokenOrder ==
    Assembled =>
        LET rc == asm.runtime_command
            np == Len(asm.commstr1)
            ne == Len(asm.envs)
        IN /\ Len(rc) = np + ne + 2
           /\ \A k \in 1..np : rc[k] = asm.commstr1[k]
           /\ \A k \in 1..ne : rc[np + k] = asm.envs[k]
           /\ rc[np + ne + 1] = MountToken
           /\ rc[np + ne + 2] = TrailerToken

\* C17 witness: prefix and environment lists of different lengths and a
\* mount fragment that differs from the trailer, for enroot
C17_Witness ==
    /\ Assembled
    /\ asm.containerRuntime = "enroot"
    /\ asm.commstr1 = << <<"a">> >>
    /\ asm.envs = << <<"a">>, <<"a", ":", "r", "o">> >>
    /\ asm.mounts = <<"a", ":", "r", "o", "a">>
    /\ asm.runtime_command[5] = <<"c", "u">>

----------------------------------------------------------------------------
(* C18 *)

Range(s) == {s[k] : k \in DOMAIN s}

\* C18 as stated: on every permutation of the container list the loop
\* names the same set of containers in its CPU default-usage warnings, and
\* the same set in its memory default-usage warnings.
C18_WarningSetInvariant ==
    \A p \in PodUIDs :
        HandedOver(p) =>
            \A f \in Permutations(DOMAIN h[p].containers) :
                LET a == AggregateFrom(InitAgg, Permuted(h[p].containers, f)) IN
                /\ Range(a.warnCPU) = Range(h[p].agg.warnCPU)
                /\ Range(a.warnMem) = Range(h[p].agg.warnMem)

\* the names of the containers without a limit that come before the first
\* container with one, in list order
UndeclaredCPUPrefix(cs) ==
    [k \in {j \in DOMAIN cs : EstablishesCPUFloor(cs, j)} |-> cs[k].name]

UndeclaredMemoryPrefix(cs) ==
    [k \in {j \in DOMAIN cs : EstablishesMemoryFloor(cs, j)} |-> cs[k].name]

\* C18 amended: the CPU default-usage warnings name, in list order, the
\* containers without a CPU limit that precede the first container with
\* one, and the memory warnings likewise; when no container declares the
\* limit, every permutation warns for the same set, all the containers.
C18_WarnedBeforeFirstDeclared ==
    \A p \in PodUIDs :
        HandedOver(p) =>
            LET cs == h[p].containers IN
            /\ h[p].agg.warnCPU = UndeclaredCPUPrefix(cs)
            /\ h[p].agg.warnMem = UndeclaredMemoryPrefix(cs)
            /\ DeclaredCPU(cs) = {} =>
                  \A f \in Permutations(DOMAIN cs) :
                      Range(AggregateFrom(InitAgg, Permuted(cs, f)).warnCPU)
                          = Range(h[p].agg.warnCPU)
            /\ DeclaredMemory(cs) = {} =>
                  \A f \in Permutations(DOMAIN cs) :
                      Range(AggregateFrom(InitAgg, Permuted(cs, f)).warnMem)
                          = Range(h[p].agg.warnMem)

\* C18 witness: a container without limits after one that declares a CPU
\* limit and before one that declares a memory limit
C18_Witness ==
    \E p \in PodUIDs :
        /\ HandedOver(p)
        /\ Len(h[p].containers) = 3
        /\ h[p].containers[1].cpuMilli = 400
        /\ h[p].containers[1].memory = 0
        /\ h[p].containers[2].cpuMilli = 0
        /\ h[p].containers[2].memory = 0
        /\ h[p].containers[3].memory > 0
        /\ h[p].agg.warnCPU = <<>>
        /\ Len(h[p].agg.warnMem) = 2

----------------------------------------------------------------------------
(* C19 *)

\* the number of containers whose limits the loop has aggregated: the
\* iteration in which prepareMounts fails has aggregated its container
Aggregated(p) ==
    IF h[p].failed = "mounts" \/ h[p].pc \in {"MountsError", "MountsRemoveAll"}
    THEN h[p].i + 1
    ELSE h[p].i

\* the plain running maximum over the first n containers, 0 when none of
\* them declares the limit
RunningMaxCPU(cs, n) == SetMax(DeclaredCPU(SubSeq(cs, 1, n)) \cup {0})
RunningMaxMemory(cs, n) == SetMax(DeclaredMemory(SubSeq(cs, 1, n)) \cup {0})

\* C19: at the end of every loop iteration maxCPULimit, cpuLimit and
\* resourceLimits.CPU are equal, and equal to the plain running maximum of
\* the CPU limits of the containers seen so far; likewise maxMemoryLimit,
\* memoryLimit and resourceLimits.Memory.
C19_RunningMaximum ==
    \A p \in PodUIDs :
        Running(p) =>
            LET a == h[p].agg
                cs == h[p].containers
                n == Aggregated(p)
            IN /\ a.maxCPULimit = a.cpuLimit
               /\ a.CPU = a.cpuLimit
               /\ a.cpuLimit = RunningMaxCPU(cs, n)
               /\ a.maxMemoryLimit = a.memoryLimit
               /\ a.Memory = a.memoryLimit
               /\ a.memoryLimit = RunningMaxMemory(cs, n)

\* C19 witness: after two iterations, the second of which met a smaller
\* CPU limit and a larger memory limit than the first
C19_Witness ==
    \E p \in PodUIDs :
        /\ h[p].pc = "Loop"
        /\ h[p].i = 2
        /\ Len(h[p].containers) = 3
        /\ h[p].containers[1].cpuMilli = 1200
        /\ h[p].containers[2].cpuMilli = 400
        /\ h[p].agg.cpuLimit = 2
        /\ h[p].agg.memoryLimit = 2 * MiB

====
